---- MODULE Spec2Model ----
(***************************************************************************)
(* The VMCALL VM-exit handler of the hypervisor                            *)
(* (hypervisor/src/intel/vmexit/vmcall.rs, handle_vmcall) and the per-core *)
(* VM-exit loop around it: the EPT mapping of the guest pages, the shadow  *)
(* memory manager, the hook registry, the single-step (MTF) counter, the   *)
(* monitor-trap flag and the guest interrupt-enable flag.                  *)
(*                                                                         *)
(* handle_vmcall is translated from its source.  Its callees (swap_page,   *)
(* the memory-manager lookups, calculate_instruction_count, hook_size,     *)
(* update_guest_interrupt_flag, pa_from_va), the MTF exit handler and hook *)
(* installation are defined in other files of the hypervisor crate and     *)
(* follow the design document (spec.md, sections 3 and 4).                 *)
(*                                                                         *)
(* Five specifications:                                                    *)
(*   Spec         the VM-exit loop, each handler one atomic step           *)
(*   HandlerSpec  the same loop with handle_vmcall run statement by        *)
(*                statement                                                *)
(*   ResolveSpec  the address derivation of handle_vmcall                  *)
(*   CommandsSpec Commands::from_u64 (shared/src/lib.rs)                   *)
(*   DriverSpec   virtualize_system (driver/src/virtualize.rs)             *)
(***************************************************************************)
EXTENDS Integers, Sequences, FiniteSets, TLC

\* x86 page sizes used by PAddr::align_down_to_base_page / _to_large_page
BASE_PAGE_SIZE == 4096
LARGE_PAGE_SIZE == 2097152

\* Option<T>: None, or Some(x); Unwrap takes the value out of a Some
None == <<>>
Some(x) == <<x>>
Unwrap(opt) == opt[1]

\* AccessType of an EPT entry
READ_WRITE_EXECUTE == "READ_WRITE_EXECUTE"
EXECUTE == "EXECUTE"

\* Results of a VM-exit handler: Ok(ExitType::Continue) or Err(HypervisorError)
Continue == "Ok(Continue)"
PageTableNotFound == "Err(PageTableNotFound)"
HookInfoNotFound == "Err(HookInfoNotFound)"
UnalignedAddressError == "Err(UnalignedAddressError)"
UnknownVmcallCommand == "Err(UnknownVmcallCommand)"
InterruptFlagError == "Err(update_guest_interrupt_flag)"
Errors ==
  {PageTableNotFound, HookInfoNotFound, UnalignedAddressError,
   UnknownVmcallCommand, InterruptFlagError}

\* The event injected on the next VM-entry: a general-protection fault with
\* an error code, or nothing
GpFault(error_code) == [vector |-> "GP", error_code |-> error_code]

(***************************************************************************)
(* The bounded guest: two 4 KiB guest-physical pages in two different      *)
(* 2 MiB regions, three function addresses in them, and the guest page     *)
(* table that maps the virtual pages of the guest onto the pages.          *)
(***************************************************************************)
\* 0x1000 and 0x201000
GuestPages == {4096, 2101248}
LargePages == {0, 2097152}
\* virtual page number -> guest-physical frame number
GuestPageTable == (16 :> 1) @@ (17 :> 513)
\* guest-virtual addresses a hypercall may come from: 0x10010, 0x10020, 0x11010
GuestRips ==
  {16 * BASE_PAGE_SIZE + 16, 16 * BASE_PAGE_SIZE + 32, 17 * BASE_PAGE_SIZE + 16}
\* hypercall numbers a guest may put in RAX; VmcallCommand::Unknown = 0 is
\* the only command the enum declares
VmcallCommand == {0}
GuestRax == {0, 57005}
\* host-physical pages the shadow memory manager hands out, in order
ShadowPool == <<3145728, 3149824>>

\* PhysicalAddress::pa_from_va: a walk of the guest page table
pa_from_va(va) ==
  GuestPageTable[va \div BASE_PAGE_SIZE] * BASE_PAGE_SIZE + (va % BASE_PAGE_SIZE)

\* PAddr::align_down_to_base_page
align_down_to_base_page(pa) == pa - (pa % BASE_PAGE_SIZE)

\* Mutant of align_down_to_large_page: the mask of a base page is used
align_down_to_large_page_base_mask(pa) == pa - (pa % BASE_PAGE_SIZE)

\* PAddr::align_down_to_large_page
align_down_to_large_page(pa) == pa - (pa % LARGE_PAGE_SIZE)

(***************************************************************************)
(* Hook kinds and the guest code at the function addresses.                *)
(***************************************************************************)
EptHookTypes == {"KernelInlineHook", "SyscallInlineHook", "PageHook"}

\* HookManager::hook_size: the number of bytes the patch of a hook kind
\* overwrites (small stand-ins for the real patch sizes)
hook_size(ept_hook_type) ==
  CASE ept_hook_type = "KernelInlineHook" -> 3
    [] ept_hook_type = "SyscallInlineHook" -> 2
    [] OTHER -> 1

\* The lengths of the instructions that start at each function address
GuestCode ==
  (4096 + 16 :> <<1, 1, 1>>) @@ (4096 + 32 :> <<2, 2, 1>>) @@
  (2101248 + 16 :> <<1, 2, 2>>)

\* HookManager::calculate_instruction_count: disassemble forward from the
\* function's start until at least hook_size bytes are covered by whole
\* instructions; the number of instructions decoded
RECURSIVE count_instructions(_, _, _, _)
count_instructions(lens, i, total_bytes, size) ==
  IF total_bytes >= size \/ i > Len(lens) THEN i - 1
  ELSE count_instructions(lens, i + 1, total_bytes + lens[i], size)

calculate_instruction_count(function_pa, size) ==
  count_instructions(GuestCode[function_pa], 1, 0, size)

(***************************************************************************)
(* State.                                                                  *)
(***************************************************************************)
VARIABLES
  guest_registers,   \* vm.guest_registers: [rax, rip] captured at the last VM-exit
  primary_ept,       \* vm.primary_ept: guest page -> [host_pa, access]
  shadow_pages,      \* memory_manager: guest page -> shadow page, or None
  page_tables,       \* memory_manager: the large pages that have a page-table cache entry
  hooks,             \* memory_manager: the registered hook descriptors
  mtf_counter,       \* vm.hook_manager.mtf_counter: None, or the instructions left
  monitor_trap_flag, \* the monitor-trap-flag VM-execution control
  rflags_if,         \* the interrupt-enable flag of the guest RFLAGS
  old_rflags,        \* the interrupt-enable flag saved for the window, or None
  injected_event,    \* the event the next VM-entry delivers, or None
  exit_reason,       \* the last VM-exit handled: "none", "vmcall" or "mtf"
  exit_result,       \* what its handler returned, "none" before the first
  window,            \* history: the hook activation in progress [n, traps, pre_if, page]
  first_shadow,      \* history: the first shadow page allocated for each page
  replaced,          \* history: the pages whose descriptor a registration replaced
  pc,                \* where the core is: "guest", or a statement of handle_vmcall
  frame,             \* the locals of the handle_vmcall call in progress, or None
  done,              \* history: the statements the call in progress has executed
  driver,            \* virtualize_system: its position and locals, or None
  call               \* a call of a pure function: its argument and result, or None

vars ==
  <<guest_registers, primary_ept, shadow_pages, page_tables, hooks, mtf_counter,
    monitor_trap_flag, rflags_if, old_rflags, injected_event, exit_reason,
    exit_result, window, first_shadow, replaced, pc, frame, done, driver, call>>

\* The state of the hypervisor core between two VM-exits, the state of a
\* handle_vmcall call in progress, and the state outside the hypervisor core
hv_vars ==
  <<guest_registers, primary_ept, shadow_pages, page_tables, hooks, mtf_counter,
    monitor_trap_flag, rflags_if, old_rflags, injected_event, exit_reason,
    exit_result, window, first_shadow, replaced>>

handler_vars == <<pc, frame, done>>

outer_vars == <<driver, call>>

\* The Vm context a handler receives
Vm ==
  [guest_registers |-> guest_registers,
   primary_ept |-> primary_ept,
   memory_manager |->
     [shadow_pages |-> shadow_pages, page_tables |-> page_tables, hooks |-> hooks],
   mtf_counter |-> mtf_counter,
   monitor_trap_flag |-> monitor_trap_flag,
   rflags_if |-> rflags_if,
   old_rflags |-> old_rflags,
   injected_event |-> injected_event]

\* The identity mapping of a guest page onto its own (primary) page
PrimaryMapping(page) == [host_pa |-> page, access |-> READ_WRITE_EXECUTE]

(***************************************************************************)
(* Shadow memory manager and hook registry lookups.                        *)
(***************************************************************************)
\* MemoryManager::get_shadow_page_as_ptr
get_shadow_page_as_ptr(memory_manager, guest_page_pa) ==
  IF guest_page_pa \in DOMAIN memory_manager.shadow_pages
  THEN memory_manager.shadow_pages[guest_page_pa]
  ELSE None

\* MemoryManager::get_page_table_as_mut: the cache entry of a large page
get_page_table_as_mut(memory_manager, guest_large_page_pa) ==
  IF guest_large_page_pa \in memory_manager.page_tables
  THEN Some([large_page |-> guest_large_page_pa])
  ELSE None

\* MemoryManager::get_hook_info_by_function_pa: the descriptor registered on
\* the page for exactly this function address
get_hook_info_by_function_pa(memory_manager, guest_page_pa, guest_function_pa) ==
  LET found ==
        {d \in memory_manager.hooks :
           /\ d.guest_page_pa = guest_page_pa
           /\ pa_from_va(d.guest_va) = guest_function_pa}
  IN IF found = {} THEN None ELSE Some(CHOOSE d \in found : TRUE)

(***************************************************************************)
(* EPT manager, MTF control, interrupt flag, event injection.              *)
(***************************************************************************)
\* Ept::swap_page: retarget the entry of guest_pa to host_pa with the given
\* access; a failed swap leaves the mapping as it was
swap_page(ept, guest_pa, host_pa, access, pt) ==
  IF guest_pa % BASE_PAGE_SIZE # 0 \/ host_pa % BASE_PAGE_SIZE # 0
  THEN [result |-> UnalignedAddressError, ept |-> ept]
  ELSE [result |-> "Ok",
        ept |-> [ept EXCEPT ![guest_pa] = [host_pa |-> host_pa, access |-> access]]]

\* set_monitor_trap_flag
set_monitor_trap_flag(vm, set) == [vm EXCEPT !.monitor_trap_flag = set]

\* update_guest_interrupt_flag(vm, enable): clearing saves the flag and
\* clears it, enabling puts the saved flag back; `outcome` is the Result the
\* callee returns, an error leaves the flag alone
update_guest_interrupt_flag(vm, enable, outcome) ==
  IF outcome # "Ok" THEN [result |-> outcome, vm |-> vm]
  ELSE IF enable
  THEN [result |-> "Ok",
        vm |-> [vm EXCEPT !.rflags_if =
                            IF vm.old_rflags = None THEN @ ELSE Unwrap(vm.old_rflags),
                          !.old_rflags = None]]
  ELSE [result |-> "Ok",
        vm |-> [vm EXCEPT !.old_rflags = Some(vm.rflags_if), !.rflags_if = FALSE]]

\* EventInjection::vmentry_inject_gp
vmentry_inject_gp(vm, error_code) == [vm EXCEPT !.injected_event = Some(GpFault(error_code))]

(***************************************************************************)
(* handle_vmcall.                                                          *)
(***************************************************************************)
\* Mutants of vmcall_swap_host_pa: the shadow page, or the large page, is
\* passed as the host page
vmcall_swap_host_pa_shadow(guest_page_pa, shadow_page_pa) == shadow_page_pa

vmcall_swap_host_pa_large(guest_page_pa, shadow_page_pa) ==
  align_down_to_large_page(guest_page_pa)

\* The host page and the access rights handle_vmcall passes to swap_page
vmcall_swap_host_pa(guest_page_pa, shadow_page_pa) == guest_page_pa

vmcall_swap_access == READ_WRITE_EXECUTE

\* Mutants of vmcall_no_shadow_page: the error the doc comment names is
\* returned; the single-step state is reset along with the injection
vmcall_no_shadow_page_error(vm) == [vm |-> vm, result |-> UnknownVmcallCommand]

vmcall_no_shadow_page_reset(vm) ==
  [vm |-> [vmentry_inject_gp(vm, 0) EXCEPT !.mtf_counter = None,
                                           !.monitor_trap_flag = FALSE],
   result |-> Continue]

\* Mutant of vmcall_no_shadow_page: the hypercall number is looked up, and a
\* number that is no command gives the error
vmcall_no_shadow_page_by_command(vm) ==
  IF vm.guest_registers.rax \in VmcallCommand
  THEN [vm |-> vmentry_inject_gp(vm, 0), result |-> Continue]
  ELSE [vm |-> vm, result |-> UnknownVmcallCommand]

\* The branch taken when the page has no shadow page: a general-protection
\* fault is injected and the guest continues
vmcall_no_shadow_page(vm) ==
  [vm |-> vmentry_inject_gp(vm, 0), result |-> Continue]

\* Mutant of vmcall_instruction_count: the patch size of one hook kind is
\* used whatever the descriptor says
vmcall_instruction_count_fixed_kind(guest_function_pa, hook_info) ==
  calculate_instruction_count(guest_function_pa, hook_size("KernelInlineHook"))

\* Mutant of vmcall_instruction_count: the patch size in bytes is stored
\* instead of the number of instructions that cover it
vmcall_instruction_count_bytes(guest_function_pa, hook_info) ==
  hook_size(hook_info.ept_hook_type)

\* The value handle_vmcall stores in the single-step counter
vmcall_instruction_count(guest_function_pa, hook_info) ==
  calculate_instruction_count(guest_function_pa, hook_size(hook_info.ept_hook_type))

\* Mutant of vmcall_arm_single_step: the monitor-trap flag is not armed
vmcall_arm_single_step_unarmed(vm, guest_function_pa, hook_info, iflag_outcome) ==
  LET counted == [vm EXCEPT !.mtf_counter =
                    Some(calculate_instruction_count(
                           guest_function_pa, hook_size(hook_info.ept_hook_type)))]
      updated == update_guest_interrupt_flag(counted, FALSE, iflag_outcome)
  IN IF updated.result # "Ok"
     THEN [vm |-> updated.vm, result |-> updated.result]
     ELSE [vm |-> updated.vm, result |-> Continue]

\* Mutant of vmcall_arm_single_step: the counter is not stored
vmcall_arm_single_step_no_counter(vm, guest_function_pa, hook_info, iflag_outcome) ==
  LET armed == set_monitor_trap_flag(vm, TRUE)
      updated == update_guest_interrupt_flag(armed, FALSE, iflag_outcome)
  IN IF updated.result # "Ok"
     THEN [vm |-> updated.vm, result |-> updated.result]
     ELSE [vm |-> updated.vm, result |-> Continue]

\* The end of the hooked branch, once the hook descriptor is found: store
\* the counter, arm the monitor-trap flag, clear the interrupt flag
vmcall_arm_single_step(vm, guest_function_pa, hook_info, iflag_outcome) ==
  LET counted == [vm EXCEPT !.mtf_counter =
                    Some(vmcall_instruction_count(guest_function_pa, hook_info))]
      armed == set_monitor_trap_flag(counted, TRUE)
      updated == update_guest_interrupt_flag(armed, FALSE, iflag_outcome)
  IN IF updated.result # "Ok"
     THEN [vm |-> updated.vm, result |-> updated.result]
     ELSE [vm |-> updated.vm, result |-> Continue]

\* Mutants of vmcall_page_table_not_found: the miss is turned into a guest
\* fault; the missing entry is created on the spot
vmcall_page_table_not_found_as_fault(vm) ==
  [vm |-> vmentry_inject_gp(vm, 0), result |-> Continue]

vmcall_page_table_not_found_allocates(vm) ==
  [vm |-> [vm EXCEPT !.memory_manager.page_tables =
             @ \cup {align_down_to_large_page(
                        align_down_to_base_page(pa_from_va(vm.guest_registers.rip)))}],
   result |-> PageTableNotFound]

\* Mutant of vmcall_hook_info_not_found: the miss is turned into a guest fault
vmcall_hook_info_not_found_as_fault(vm) ==
  [vm |-> vmentry_inject_gp(vm, 0), result |-> Continue]

\* Mutant of vmcall_hook_info_not_found: the error path disarms single-stepping
vmcall_hook_info_not_found_disarms(vm) ==
  [vm |-> [vm EXCEPT !.mtf_counter = None, !.monitor_trap_flag = FALSE],
   result |-> HookInfoNotFound]

\* The page-table cache has no entry for the large page: ok_or(PageTableNotFound)?
vmcall_page_table_not_found(vm) == [vm |-> vm, result |-> PageTableNotFound]

\* No descriptor for the function address: ok_or(HookInfoNotFound)?
vmcall_hook_info_not_found(vm) == [vm |-> vm, result |-> HookInfoNotFound]

\* The branch taken when the page has a shadow page
vmcall_shadow_page(vm, guest_function_pa, guest_page_pa, guest_large_page_pa, shadow_page_pa, iflag_outcome) ==
  LET pre_alloc_pt == get_page_table_as_mut(vm.memory_manager, guest_large_page_pa)
  IN IF pre_alloc_pt = None
     THEN vmcall_page_table_not_found(vm)
     ELSE
       LET swapped ==
             swap_page(vm.primary_ept, guest_page_pa,
                       vmcall_swap_host_pa(guest_page_pa, shadow_page_pa),
                       vmcall_swap_access, Unwrap(pre_alloc_pt))
       IN IF swapped.result # "Ok"
          THEN [vm |-> vm, result |-> swapped.result]
          ELSE
            LET vm1 == [vm EXCEPT !.primary_ept = swapped.ept]
                hook_info ==
                  get_hook_info_by_function_pa(vm1.memory_manager, guest_page_pa,
                                               guest_function_pa)
            IN IF hook_info = None
               THEN vmcall_hook_info_not_found(vm1)
               ELSE vmcall_arm_single_step(vm1, guest_function_pa,
                                           Unwrap(hook_info), iflag_outcome)

\* handle_vmcall(vm): the new Vm context and the Result returned
handle_vmcall(vm, iflag_outcome) ==
  LET vmcall_number == vm.guest_registers.rax
      guest_function_pa == pa_from_va(vm.guest_registers.rip)
      guest_page_pa == align_down_to_base_page(guest_function_pa)
      guest_large_page_pa == align_down_to_large_page(guest_page_pa)
      shadow_page_pa == get_shadow_page_as_ptr(vm.memory_manager, guest_page_pa)
  IN IF shadow_page_pa # None
     THEN vmcall_shadow_page(vm, guest_function_pa, guest_page_pa,
                             guest_large_page_pa, Unwrap(shadow_page_pa), iflag_outcome)
     ELSE vmcall_no_shadow_page(vm)

(***************************************************************************)
(* The MTF (single-step) exit handler.                                     *)
(***************************************************************************)
\* handle_monitor_trap_flag(vm): decrement the counter; at zero swap the
\* page back to the primary page, restore the interrupt flag, disarm
handle_monitor_trap_flag(vm) ==
  IF vm.mtf_counter = None THEN [vm |-> vm, result |-> Continue]
  ELSE
    LET left == Unwrap(vm.mtf_counter) - 1
        guest_page_pa == align_down_to_base_page(pa_from_va(vm.guest_registers.rip))
        pre_alloc_pt ==
          get_page_table_as_mut(vm.memory_manager, align_down_to_large_page(guest_page_pa))
    IN IF left > 0
       THEN [vm |-> [vm EXCEPT !.mtf_counter = Some(left)], result |-> Continue]
       ELSE IF pre_alloc_pt = None
       THEN [vm |-> [vm EXCEPT !.mtf_counter = Some(left)], result |-> PageTableNotFound]
       ELSE
         LET swapped == swap_page(vm.primary_ept, guest_page_pa, guest_page_pa,
                                  READ_WRITE_EXECUTE, Unwrap(pre_alloc_pt))
             restored ==
               update_guest_interrupt_flag(
                 [vm EXCEPT !.primary_ept = swapped.ept], TRUE, "Ok")
             disarmed == set_monitor_trap_flag(restored.vm, FALSE)
         IN [vm |-> [disarmed EXCEPT !.mtf_counter = None], result |-> Continue]

(***************************************************************************)
(* The VM-exit loop of one core and hook installation.                     *)
(***************************************************************************)
\* A handler returned an error: the core halts instead of resuming the guest
Halted == exit_result \in Errors

GuestPageOf(rip) == align_down_to_base_page(pa_from_va(rip))

\* Write a Vm context back to the state
Commit(vm) ==
  /\ guest_registers' = vm.guest_registers
  /\ primary_ept' = vm.primary_ept
  /\ shadow_pages' = vm.memory_manager.shadow_pages
  /\ page_tables' = vm.memory_manager.page_tables
  /\ hooks' = vm.memory_manager.hooks
  /\ mtf_counter' = vm.mtf_counter
  /\ monitor_trap_flag' = vm.monitor_trap_flag
  /\ rflags_if' = vm.rflags_if
  /\ old_rflags' = vm.old_rflags
  /\ injected_event' = vm.injected_event

\* The hypervisor core after construction: no hook, the guest about to run
CoreInit ==
  /\ guest_registers = [rax |-> 0, rip |-> 16 * BASE_PAGE_SIZE + 16]
  /\ primary_ept = [page \in GuestPages |-> PrimaryMapping(page)]
  /\ shadow_pages = [page \in GuestPages |-> None]
  /\ page_tables = {}
  /\ hooks = {}
  /\ mtf_counter = None
  /\ monitor_trap_flag = FALSE
  /\ rflags_if \in BOOLEAN
  /\ old_rflags = None
  /\ injected_event = None
  /\ exit_reason = "none"
  /\ exit_result = "none"
  /\ window = None
  /\ first_shadow = [page \in GuestPages |-> None]
  /\ replaced = {}
  /\ pc = "guest"
  /\ frame = None
  /\ done = {}

Init ==
  /\ CoreInit
  /\ driver = None
  /\ call = None

\* The shadow memory manager allocates the shadow page of a guest page; a
\* shadow page, once allocated, is never freed or replaced
allocate_shadow_page(pages, page) ==
  IF pages[page] # None THEN pages
  ELSE [pages EXCEPT ![page] =
          Some(ShadowPool[Cardinality({p \in GuestPages : pages[p] # None}) + 1])]

AllocateShadowPage(page) ==
  /\ ~Halted /\ pc = "guest"
  /\ shadow_pages[page] = None
  /\ shadow_pages' = allocate_shadow_page(shadow_pages, page)
  /\ first_shadow' = [first_shadow EXCEPT ![page] = shadow_pages'[page]]
  /\ UNCHANGED <<guest_registers, primary_ept, page_tables, hooks, mtf_counter,
                 monitor_trap_flag, rflags_if, old_rflags, injected_event,
                 exit_reason, exit_result, window, replaced>>
  /\ UNCHANGED <<handler_vars, outer_vars>>

\* Registration replaces the descriptor the page already has
register_hook(registry, descriptor) ==
  {d \in registry : d.guest_page_pa # descriptor.guest_page_pa} \cup {descriptor}

\* Register a hook of a kind for the function at guest_va: the shadow page
\* is allocated on the first hook of the page, the page-table cache entry on
\* the first hook of the large page
RegisterHook(guest_va, ept_hook_type) ==
  LET page == GuestPageOf(guest_va)
      pages == allocate_shadow_page(shadow_pages, page)
      descriptor ==
        [guest_va |-> guest_va, guest_page_pa |-> page,
         ept_hook_type |-> ept_hook_type, shadow_page_pa |-> Unwrap(pages[page])]
  IN /\ ~Halted /\ pc = "guest"
     /\ shadow_pages' = pages
     /\ page_tables' = page_tables \cup {align_down_to_large_page(page)}
     /\ hooks' = register_hook(hooks, descriptor)
     /\ first_shadow' =
          IF first_shadow[page] = None
          THEN [first_shadow EXCEPT ![page] = pages[page]]
          ELSE first_shadow
     /\ replaced' =
          IF \E d \in hooks : d.guest_page_pa = page /\ d # descriptor
          THEN replaced \cup {page}
          ELSE replaced
     /\ UNCHANGED <<guest_registers, primary_ept, mtf_counter, monitor_trap_flag,
                    rflags_if, old_rflags, injected_event, exit_reason, exit_result,
                    window>>
     /\ UNCHANGED <<handler_vars, outer_vars>>

\* Hook installation maps a hooked page to its shadow page, execute-only,
\* while no single-step window is open
MapShadowPage(page) ==
  LET pt == get_page_table_as_mut(Vm.memory_manager, align_down_to_large_page(page))
  IN /\ ~Halted /\ pc = "guest"
     /\ shadow_pages[page] # None
     /\ pt # None
     /\ primary_ept' =
          swap_page(primary_ept, page, Unwrap(shadow_pages[page]), EXECUTE, Unwrap(pt)).ept
     /\ primary_ept' # primary_ept
     /\ mtf_counter = None
     /\ UNCHANGED <<guest_registers, shadow_pages, page_tables, hooks, mtf_counter,
                    monitor_trap_flag, rflags_if, old_rflags, injected_event,
                    exit_reason, exit_result, window, first_shadow, replaced>>
     /\ UNCHANGED <<handler_vars, outer_vars>>

\* A VMCALL VM-exit: the registers are captured, handle_vmcall runs, and the
\* dispatcher resumes the guest or halts on an error
VmcallExit(rax, rip, iflag_outcome) ==
  LET entered == [Vm EXCEPT !.guest_registers = [rax |-> rax, rip |-> rip],
                            !.injected_event = None]
      handled == handle_vmcall(entered, iflag_outcome)
      stored == handled.vm.mtf_counter
      activated ==
        /\ get_shadow_page_as_ptr(entered.memory_manager, GuestPageOf(rip)) # None
        /\ handled.result \in {Continue, InterruptFlagError}
        /\ stored # None
  IN /\ ~Halted /\ pc = "guest"
     /\ Commit(handled.vm)
     /\ exit_reason' = "vmcall"
     /\ exit_result' = handled.result
     /\ window' =
          IF activated
          THEN Some([n |-> Unwrap(stored), traps |-> 0, pre_if |-> rflags_if,
                     page |-> GuestPageOf(rip)])
          ELSE window
     /\ UNCHANGED <<first_shadow, replaced, handler_vars, outer_vars>>

\* An MTF VM-exit, taken after one guest instruction while the monitor-trap
\* flag is armed
MtfExit ==
  LET entered == [Vm EXCEPT !.injected_event = None]
      handled == handle_monitor_trap_flag(entered)
  IN /\ ~Halted /\ pc = "guest"
     /\ monitor_trap_flag
     /\ Commit(handled.vm)
     /\ exit_reason' = "mtf"
     /\ exit_result' = handled.result
     /\ window' =
          IF window = None \/ (handled.result = Continue /\ handled.vm.mtf_counter = None)
          THEN None
          ELSE Some([Unwrap(window) EXCEPT !.traps = @ + 1])
     /\ UNCHANGED <<first_shadow, replaced, handler_vars, outer_vars>>

Next ==
  \/ \E page \in GuestPages : AllocateShadowPage(page)
  \/ \E guest_va \in GuestRips, kind \in EptHookTypes : RegisterHook(guest_va, kind)
  \/ \E page \in GuestPages : MapShadowPage(page)
  \/ \E rax \in GuestRax, rip \in GuestRips, iflag_outcome \in {"Ok", InterruptFlagError} :
       VmcallExit(rax, rip, iflag_outcome)
  \/ MtfExit

Spec == Init /\ [][Next]_vars

(***************************************************************************)
(* handle_vmcall statement by statement: the core runs one statement of    *)
(* the handler at a time, `pc` names the statement to run next and `frame` *)
(* holds the locals.                                                       *)
(***************************************************************************)
\* Mutants of vmcall_next: the interrupt flag is cleared before the swap; a
\* failed step of the hooked branch is retried from the page-table lookup
vmcall_next_interrupt_flag_first(statement) ==
  CASE statement = "get_page_table" -> "update_guest_interrupt_flag"
    [] statement = "update_guest_interrupt_flag" -> "swap_page"
    [] statement = "swap_page" -> "get_hook_info"
    [] statement = "get_hook_info" -> "mtf_counter"
    [] statement = "mtf_counter" -> "set_monitor_trap_flag"
    [] OTHER -> "ok_continue"

vmcall_next_retry(statement) ==
  CASE statement = "get_page_table" -> "swap_page"
    [] statement = "swap_page" -> "get_hook_info"
    [] statement = "get_hook_info" -> "mtf_counter"
    [] statement = "mtf_counter" -> "set_monitor_trap_flag"
    [] statement = "set_monitor_trap_flag" -> "update_guest_interrupt_flag"
    [] OTHER -> "get_page_table"

\* The statement of the hooked branch that runs after a statement that did
\* not return early: the program order of lines 72 to 103
vmcall_next(statement) ==
  CASE statement = "get_page_table" -> "swap_page"
    [] statement = "swap_page" -> "get_hook_info"
    [] statement = "get_hook_info" -> "mtf_counter"
    [] statement = "mtf_counter" -> "set_monitor_trap_flag"
    [] statement = "set_monitor_trap_flag" -> "update_guest_interrupt_flag"
    [] OTHER -> "ok_continue"

\* The locals of a call that has just been entered
EmptyFrame(vm) ==
  [entry |-> vm, guest_function_pa |-> None, guest_page_pa |-> None,
   guest_large_page_pa |-> None, shadow_page_pa |-> None, pre_alloc_pt |-> None,
   hook_info |-> None, result |-> None]

\* What a statement leaves alone besides the Vm context and the handler state
StatementFrame ==
  UNCHANGED <<exit_reason, exit_result, window, first_shadow, replaced, outer_vars>>

\* A statement that returns early with a result (the ? operator), or falls
\* through to the next statement
ReturnEarly(vm, result) ==
  /\ Commit(vm)
  /\ frame' = [frame EXCEPT !.result = Some(result)]
  /\ pc' = "return"
  /\ done' = done

\* A VMCALL VM-exit is taken: the registers are captured and handle_vmcall
\* is entered
VmcallEntry(rax, rip) ==
  LET entered == [Vm EXCEPT !.guest_registers = [rax |-> rax, rip |-> rip],
                            !.injected_event = None]
  IN /\ ~Halted /\ pc = "guest"
     /\ Commit(entered)
     /\ exit_reason' = "vmcall"
     /\ frame' = EmptyFrame(entered)
     /\ pc' = "resolve"
     /\ done' = {}
     /\ UNCHANGED <<exit_result, window, first_shadow, replaced, outer_vars>>

\* lines 49-60: the function, page and large-page addresses
Resolve ==
  LET guest_function_pa == pa_from_va(guest_registers.rip)
      guest_page_pa == align_down_to_base_page(guest_function_pa)
      guest_large_page_pa == align_down_to_large_page(guest_page_pa)
  IN /\ pc = "resolve"
     /\ frame' = [frame EXCEPT !.guest_function_pa = Some(guest_function_pa),
                               !.guest_page_pa = Some(guest_page_pa),
                               !.guest_large_page_pa = Some(guest_large_page_pa)]
     /\ pc' = "get_shadow_page"
     /\ UNCHANGED <<hv_vars, done, outer_vars>>

\* line 63: if let Some(shadow_page_pa) = get_shadow_page_as_ptr(..)
GetShadowPage ==
  LET shadow_page_pa ==
        get_shadow_page_as_ptr(Vm.memory_manager, Unwrap(frame.guest_page_pa))
  IN /\ pc = "get_shadow_page"
     /\ frame' = [frame EXCEPT !.shadow_page_pa = shadow_page_pa]
     /\ pc' = IF shadow_page_pa # None THEN "get_page_table" ELSE "vmentry_inject_gp"
     /\ UNCHANGED <<hv_vars, done, outer_vars>>

\* lines 72-76: get_page_table_as_mut(..).ok_or(PageTableNotFound)?
GetPageTable ==
  LET pre_alloc_pt ==
        get_page_table_as_mut(Vm.memory_manager, Unwrap(frame.guest_large_page_pa))
      missing == vmcall_page_table_not_found(Vm)
  IN /\ pc = "get_page_table"
     /\ IF pre_alloc_pt = None
        THEN ReturnEarly(missing.vm, missing.result)
        ELSE /\ frame' = [frame EXCEPT !.pre_alloc_pt = pre_alloc_pt]
             /\ pc' = vmcall_next("get_page_table")
             /\ UNCHANGED <<hv_vars, done>>
     /\ StatementFrame

\* lines 79-80: swap_page(guest_page_pa, guest_page_pa, READ_WRITE_EXECUTE, pre_alloc_pt)?
SwapPage ==
  LET guest_page_pa == Unwrap(frame.guest_page_pa)
      swapped ==
        swap_page(primary_ept, guest_page_pa,
                  vmcall_swap_host_pa(guest_page_pa, Unwrap(frame.shadow_page_pa)),
                  vmcall_swap_access, Unwrap(frame.pre_alloc_pt))
  IN /\ pc = "swap_page"
     /\ IF swapped.result # "Ok"
        THEN ReturnEarly(Vm, swapped.result)
        ELSE /\ Commit([Vm EXCEPT !.primary_ept = swapped.ept])
             /\ done' = done \cup {"swap_page"}
             /\ pc' = vmcall_next("swap_page")
             /\ frame' = frame
     /\ StatementFrame

\* lines 82-86: get_hook_info_by_function_pa(..).ok_or(HookInfoNotFound)?
GetHookInfo ==
  LET hook_info ==
        get_hook_info_by_function_pa(Vm.memory_manager, Unwrap(frame.guest_page_pa),
                                     Unwrap(frame.guest_function_pa))
      missing == vmcall_hook_info_not_found(Vm)
  IN /\ pc = "get_hook_info"
     /\ IF hook_info = None
        THEN ReturnEarly(missing.vm, missing.result)
        ELSE /\ frame' = [frame EXCEPT !.hook_info = hook_info]
             /\ pc' = vmcall_next("get_hook_info")
             /\ UNCHANGED <<hv_vars, done>>
     /\ StatementFrame

\* lines 92-94: mtf_counter = Some(calculate_instruction_count(..))
StoreCounter ==
  LET instruction_count ==
        vmcall_instruction_count(Unwrap(frame.guest_function_pa), Unwrap(frame.hook_info))
  IN /\ pc = "mtf_counter"
     /\ Commit([Vm EXCEPT !.mtf_counter = Some(instruction_count)])
     /\ done' = done \cup {"mtf_counter"}
     /\ pc' = vmcall_next("mtf_counter")
     /\ frame' = frame
     /\ StatementFrame

\* line 97: set_monitor_trap_flag(true)
SetMonitorTrapFlag ==
  /\ pc = "set_monitor_trap_flag"
  /\ Commit(set_monitor_trap_flag(Vm, TRUE))
  /\ done' = done \cup {"set_monitor_trap_flag"}
  /\ pc' = vmcall_next("set_monitor_trap_flag")
  /\ frame' = frame
  /\ StatementFrame

\* line 101: update_guest_interrupt_flag(vm, false)?
UpdateGuestInterruptFlag(iflag_outcome) ==
  LET updated == update_guest_interrupt_flag(Vm, FALSE, iflag_outcome)
  IN /\ pc = "update_guest_interrupt_flag"
     /\ IF updated.result # "Ok"
        THEN ReturnEarly(updated.vm, updated.result)
        ELSE /\ Commit(updated.vm)
             /\ done' = done \cup {"update_guest_interrupt_flag"}
             /\ pc' = vmcall_next("update_guest_interrupt_flag")
             /\ frame' = frame
     /\ StatementFrame

\* line 103: Ok(ExitType::Continue)
OkContinue ==
  /\ pc = "ok_continue"
  /\ frame' = [frame EXCEPT !.result = Some(Continue)]
  /\ pc' = "return"
  /\ UNCHANGED <<hv_vars, done, outer_vars>>

\* lines 104-107: the page has no shadow page
VmentryInjectGp ==
  LET faulted == vmcall_no_shadow_page(Vm)
  IN /\ pc = "vmentry_inject_gp"
     /\ ReturnEarly(faulted.vm, faulted.result)
     /\ StatementFrame

\* line 109 and the dispatcher: the result goes back to the VM-exit loop,
\* which resumes the guest on Ok(Continue) and halts the core on an error
VmcallReturn ==
  LET result == Unwrap(frame.result)
  IN /\ pc = "return"
     /\ result \in {Continue} \cup Errors
     /\ exit_result' = result
     /\ pc' = IF result = Continue THEN "guest" ELSE "halt"
     /\ frame' = None
     /\ UNCHANGED <<guest_registers, primary_ept, shadow_pages, page_tables, hooks,
                    mtf_counter, monitor_trap_flag, rflags_if, old_rflags,
                    injected_event, exit_reason, window, first_shadow, replaced,
                    done, outer_vars>>

\* One statement of handle_vmcall, or the return to the VM-exit loop
HandlerStep ==
  \/ Resolve
  \/ GetShadowPage
  \/ GetPageTable
  \/ SwapPage
  \/ GetHookInfo
  \/ StoreCounter
  \/ SetMonitorTrapFlag
  \/ \E iflag_outcome \in {"Ok", InterruptFlagError} :
       UpdateGuestInterruptFlag(iflag_outcome)
  \/ OkContinue
  \/ VmentryInjectGp
  \/ VmcallReturn

\* The hook kind decides the count stored, not the statements that run: the
\* statement-wise specification registers hooks of one kind
HandlerNext ==
  \/ \E page \in GuestPages : AllocateShadowPage(page)
  \/ \E guest_va \in GuestRips : RegisterHook(guest_va, "KernelInlineHook")
  \/ \E page \in GuestPages : MapShadowPage(page)
  \/ \E rax \in GuestRax, rip \in GuestRips : VmcallEntry(rax, rip)
  \/ HandlerStep
  \/ MtfExit

\* The handler runs to completion synchronously: once a VM-exit is taken the
\* core keeps executing statements, nothing preempts or cancels it
HandlerSpec == Init /\ [][HandlerNext]_vars /\ WF_vars(HandlerStep)

(***************************************************************************)
(* The address derivation of handle_vmcall (lines 53-60) on its own, over  *)
(* instruction-pointer addresses at the borders of pages and large pages.  *)
(***************************************************************************)
\* Page-aligned addresses next to page and large-page borders: 0, 0x1000,
\* 0x1FF000, 0x200000, 0x201000, 0x3FF000, 0x400000, 0x40000000, 0x7FFFF000
PageBases ==
  {0, 4096, 2093056, 2097152, 2101248, 4190208, 4194304, 1073741824, 2147479552}

PageOffsets == {0, 1, 16, 2048, 4095}

\* The physical addresses pa_from_va may return for the instruction pointer
GuestFunctionPas == {base + offset : base \in PageBases, offset \in PageOffsets}

ResolveInit ==
  /\ CoreInit
  /\ driver = None
  /\ call \in {[op |-> "resolve", arg |-> guest_function_pa, ret |-> <<>>] :
                 guest_function_pa \in GuestFunctionPas}

\* line 56: guest_page_pa = guest_function_pa.align_down_to_base_page()
AlignDownToBasePage ==
  /\ call.op = "resolve" /\ Len(call.ret) = 0
  /\ call' = [call EXCEPT !.ret = <<align_down_to_base_page(call.arg)>>]
  /\ UNCHANGED <<hv_vars, handler_vars, driver>>

\* line 59: guest_large_page_pa = guest_page_pa.align_down_to_large_page()
AlignDownToLargePage ==
  /\ call.op = "resolve" /\ Len(call.ret) = 1
  /\ call' = [call EXCEPT !.ret = Append(@, align_down_to_large_page(call.ret[1]))]
  /\ UNCHANGED <<hv_vars, handler_vars, driver>>

ResolveNext == AlignDownToBasePage \/ AlignDownToLargePage

ResolveSpec == ResolveInit /\ [][ResolveNext]_vars

(***************************************************************************)
(* shared::Commands (shared/src/lib.rs): the command codes of the client   *)
(* protocol and their conversion from a u64.                               *)
(***************************************************************************)
\* enum Commands
Commands ==
  {"EnableKernelInlineHook", "EnableSyscallInlineHook", "DisablePageHook", "Invalid"}

\* The discriminant #[repr(u64)] gives a variant: the three written out, and
\* one more than the previous variant's for Invalid
discriminant(command) ==
  CASE command = "EnableKernelInlineHook" -> 0
    [] command = "EnableSyscallInlineHook" -> 1
    [] command = "DisablePageHook" -> 2
    [] command = "Invalid" -> 2 + 1

\* Mutant of from_u64: the arm of DisablePageHook is missing
from_u64_missing_arm(value) ==
  CASE value = 0 -> "EnableKernelInlineHook"
    [] value = 1 -> "EnableSyscallInlineHook"
    [] OTHER -> "Invalid"

\* Commands::from_u64
from_u64(value) ==
  CASE value = 0 -> "EnableKernelInlineHook"
    [] value = 1 -> "EnableSyscallInlineHook"
    [] value = 2 -> "DisablePageHook"
    [] OTHER -> "Invalid"

\* The u64 values converted: 0 .. MaxCommandValue and one large value
MaxCommandValue == 63

U64Values == 0..MaxCommandValue \cup {2147483647}

CommandsInit ==
  /\ CoreInit
  /\ driver = None
  /\ call \in {[op |-> "from_u64", arg |-> value, ret |-> <<>>] : value \in U64Values}

\* Commands::from_u64(value)
FromU64 ==
  /\ call.op = "from_u64" /\ Len(call.ret) = 0
  /\ call' = [call EXCEPT !.ret = <<from_u64(call.arg)>>]
  /\ UNCHANGED <<hv_vars, handler_vars, driver>>

\* command as u64
AsU64 ==
  /\ call.op = "from_u64" /\ Len(call.ret) = 1
  /\ call' = [call EXCEPT !.ret = Append(@, discriminant(call.ret[1]))]
  /\ UNCHANGED <<hv_vars, handler_vars, driver>>

\* Commands::from_u64(command as u64)
FromU64OfDiscriminant ==
  /\ call.op = "from_u64" /\ Len(call.ret) = 2
  /\ call' = [call EXCEPT !.ret = Append(@, from_u64(call.ret[2]))]
  /\ UNCHANGED <<hv_vars, handler_vars, driver>>

CommandsNext == FromU64 \/ AsU64 \/ FromU64OfDiscriminant

CommandsSpec == CommandsInit /\ [][CommandsNext]_vars

(***************************************************************************)
(* virtualize_system (driver/src/virtualize.rs): the relocation table of   *)
(* the image is zeroed, a stack is allocated, and switch_stack jumps to    *)
(* the hypervisor entry point on it.                                       *)
(***************************************************************************)
\* The offsets of the relocation directory in the PE header: 0x128 and 0x12c
RelocationTableOffsets == {296, 300}

\* The values the two fields may hold when the image is loaded
RelocationTables ==
  {[offset \in RelocationTableOffsets |-> IF offset = 296 THEN rva ELSE size] :
     rva \in {0, 4096, 40960}, size \in {0, 12, 4096}}

\* hypervisor::intel::page::Page: a 4 KiB page, aligned to its size
PageSize == 4096
PageAlign == 4096

\* Layout::array::<Page>(0x10): the size and the alignment of the stack
StackPages == 16
LayoutSize == StackPages * PageSize
LayoutAlign == PageAlign

\* What alloc_zeroed(layout) may return: null, or a block aligned to the
\* layout's alignment
MaxStackBlock == 16

StackAllocations == {0} \cup {block * LayoutAlign : block \in 1..MaxStackBlock}

\* Mutants of stack_base_of: the end of the allocation; its start
stack_base_of_end(stack, size) == stack + size

\* line 55: stack_base = stack as u64 + layout.size() as u64 - 0x10
stack_base_of(stack, size) == stack + size - 16

DriverInit ==
  /\ CoreInit
  /\ call = None
  /\ driver \in {[pc |-> "open_protocol", image |-> image, stack |-> None,
                  stack_base |-> None] : image \in RelocationTables}

DriverFrame == UNCHANGED <<hv_vars, handler_vars, call>>

\* lines 21-23: open_protocol_exclusive::<LoadedImage>(..).unwrap()
OpenProtocol(opened) ==
  /\ driver.pc = "open_protocol"
  /\ driver' = [driver EXCEPT !.pc = IF opened THEN "zap_relocation_table" ELSE "panic"]
  /\ DriverFrame

\* lines 41-44: the two fields of the relocation directory are set to zero
ZapRelocationTable ==
  /\ driver.pc = "zap_relocation_table"
  /\ driver' = [driver EXCEPT !.image = [offset \in RelocationTableOffsets |-> 0],
                              !.pc = "alloc_zeroed"]
  /\ DriverFrame

\* lines 47-49: stack = alloc_zeroed(Layout::array::<Page>(0x10).unwrap())
AllocZeroed(block) ==
  /\ driver.pc = "alloc_zeroed"
  /\ driver' = [driver EXCEPT !.stack = Some(block), !.pc = "is_null"]
  /\ DriverFrame

\* lines 51-53: if stack.is_null() { handle_alloc_error(layout) }, which
\* does not return
IsNull ==
  /\ driver.pc = "is_null"
  /\ driver' = [driver EXCEPT !.pc = IF Unwrap(driver.stack) = 0
                                     THEN "handle_alloc_error" ELSE "stack_base"]
  /\ DriverFrame

\* line 55
StackBase ==
  /\ driver.pc = "stack_base"
  /\ driver' = [driver EXCEPT
                  !.stack_base = Some(stack_base_of(Unwrap(driver.stack), LayoutSize)),
                  !.pc = "switch_stack"]
  /\ DriverFrame

\* line 58: switch_stack(regs, start_hypervisor, stack_base): the stack
\* pointer is set and the hypervisor entry point runs
SwitchStack ==
  /\ driver.pc = "switch_stack"
  /\ driver' = [driver EXCEPT !.pc = "start_hypervisor"]
  /\ DriverFrame

DriverNext ==
  \/ \E opened \in BOOLEAN : OpenProtocol(opened)
  \/ ZapRelocationTable
  \/ \E block \in StackAllocations : AllocZeroed(block)
  \/ IsNull
  \/ StackBase
  \/ SwitchStack

DriverSpec == DriverInit /\ [][DriverNext]_vars

(***************************************************************************)
(* Properties.                                                             *)
(***************************************************************************)
\* A step of the VM-exit loop that handles a VMCALL exit
VmcallStep ==
  /\ exit_reason' = "vmcall"
  /\ \E iflag_outcome \in {"Ok", InterruptFlagError} :
       VmcallExit(guest_registers'.rax, guest_registers'.rip, iflag_outcome)

\* A step of the VM-exit loop that handles an MTF exit
MtfStep == exit_reason' = "mtf" /\ MtfExit

\* The page and the function address of the exit being handled
ExitFunctionPa == pa_from_va(guest_registers'.rip)
ExitPage == align_down_to_base_page(ExitFunctionPa)
ExitLargePage == align_down_to_large_page(ExitPage)

\* Before the exit, the page has a shadow page / a page-table cache entry /
\* a descriptor / a descriptor for exactly the function address
HasShadowPage(page) == shadow_pages[page] # None
HasPageTable(page) == align_down_to_large_page(page) \in page_tables
HasDescriptor(page) == \E d \in hooks : d.guest_page_pa = page
HasHookInfo(page, function_pa) ==
  \E d \in hooks : d.guest_page_pa = page /\ pa_from_va(d.guest_va) = function_pa
HasRegisteredHook(page) ==
  HasShadowPage(page) /\ HasPageTable(page) /\ HasDescriptor(page)

RestorationStep == MtfStep /\ exit_result' = Continue /\ mtf_counter' = None

C4_NoShadowFrame ==
  [][(VmcallStep /\ ~HasShadowPage(ExitPage)) =>
       /\ primary_ept' = primary_ept
       /\ mtf_counter' = mtf_counter
       /\ monitor_trap_flag' = monitor_trap_flag
       /\ rflags_if' = rflags_if
       /\ old_rflags' = old_rflags]_vars

\* C4 witness: the fault was injected for an exit on an unhooked page while
\* the single-step window of another page was open, interrupts held off
C4_Witness ==
  /\ exit_reason = "vmcall" /\ injected_event = Some(GpFault(0))
  /\ ~HasShadowPage(GuestPageOf(guest_registers.rip))
  /\ mtf_counter = Some(2) /\ monitor_trap_flag
  /\ ~rflags_if /\ old_rflags = Some(TRUE)
  /\ \E page \in GuestPages : HasRegisteredHook(page)

\* C5: with a shadow page but no page-table cache entry for the large page,
\* handle_vmcall returns PageTableNotFound and changes nothing: no swap, no
\* counter, no monitor-trap flag, no interrupt-flag change, no fault.
C5_PageTableNotFound ==
  [][(VmcallStep /\ HasShadowPage(ExitPage) /\ ~HasPageTable(ExitPage)) =>
       /\ exit_result' = PageTableNotFound
       /\ primary_ept' = primary_ept
       /\ mtf_counter' = mtf_counter
       /\ monitor_trap_flag' = monitor_trap_flag
       /\ rflags_if' = rflags_if
       /\ old_rflags' = old_rflags
       /\ injected_event' = None]_vars

\* C5 witness: the handler has returned PageTableNotFound
C5_Witness ==
  /\ exit_reason = "vmcall" /\ exit_result = PageTableNotFound
  /\ HasShadowPage(GuestPageOf(guest_registers.rip))
  /\ ~HasPageTable(GuestPageOf(guest_registers.rip))

C7_PrimaryOrShadow ==
  \A page \in GuestPages :
    \/ primary_ept[page].host_pa = page
    \/ /\ shadow_pages[page] # None
       /\ primary_ept[page].host_pa = Unwrap(shadow_pages[page])

\* C7 witness: after a window has ended, one hooked page is mapped to its
\* primary page and another to its shadow page
C7_Witness ==
  /\ exit_reason = "mtf" /\ mtf_counter = None
  /\ \E p, q \in GuestPages :
       /\ HasShadowPage(p) /\ primary_ept[p].host_pa = p
       /\ HasShadowPage(q) /\ primary_ept[q].host_pa = Unwrap(shadow_pages[q])

\* A VMCALL step that reaches the end of the hooked branch: a hook activation
ActivationStep ==
  /\ VmcallStep
  /\ HasShadowPage(ExitPage)
  /\ exit_result' \in {Continue, InterruptFlagError}

\* The descriptors the registry holds for a page
DescriptorsOf(registry, page) == {d \in registry : d.guest_page_pa = page}

\* C8: the registry holds at most one descriptor per page; a registration
\* leaves exactly the new descriptor for its page; and an activation takes
\* the hook kind, hence the instruction count, from the one descriptor the
\* page has, whose shadow reference is the shadow page of the page.
C8_IdempotentReplace ==
  /\ [](\A page \in GuestPages : Cardinality(DescriptorsOf(hooks, page)) <= 1)
  /\ [][\A guest_va \in GuestRips, kind \in EptHookTypes :
          RegisterHook(guest_va, kind) =>
            DescriptorsOf(hooks', GuestPageOf(guest_va)) =
              {[guest_va |-> guest_va, guest_page_pa |-> GuestPageOf(guest_va),
                ept_hook_type |-> kind,
                shadow_page_pa |-> Unwrap(shadow_pages'[GuestPageOf(guest_va)])]}]_vars
  /\ [][ActivationStep =>
          \E d \in hooks :
            /\ DescriptorsOf(hooks, ExitPage) = {d}
            /\ pa_from_va(d.guest_va) = ExitFunctionPa
            /\ d.shadow_page_pa = Unwrap(shadow_pages[ExitPage])
            /\ mtf_counter' =
                 Some(calculate_instruction_count(ExitFunctionPa,
                                                  hook_size(d.ept_hook_type)))]_vars

\* C8 witness: a page whose descriptor was replaced by a syscall hook at the
\* second function address has been activated with that hook's count of one
C8_Witness ==
  /\ exit_reason = "vmcall" /\ exit_result = Continue
  /\ GuestPageOf(guest_registers.rip) \in replaced
  /\ window # None /\ Unwrap(window).traps = 0
  /\ mtf_counter = Some(1)
  /\ \E d \in hooks :
       /\ d.guest_va = guest_registers.rip
       /\ d.guest_va = 16 * BASE_PAGE_SIZE + 32
       /\ d.ept_hook_type = "SyscallInlineHook"

\* C9: handling a VMCALL or an MTF exit leaves the shadow pages, the
\* page-table cache and the hook registry as they were; the shadow page a
\* page has is always the first one allocated for it; and whenever the EPT
\* maps a page away from its primary page, it maps it to that shadow page.
C9_NoShadowAllocation ==
  /\ [][(VmcallStep \/ MtfStep) =>
          /\ shadow_pages' = shadow_pages
          /\ page_tables' = page_tables
          /\ hooks' = hooks]_vars
  /\ [](shadow_pages = first_shadow)
  /\ [](\A page \in GuestPages :
          primary_ept[page].host_pa # page =>
            /\ first_shadow[page] # None
            /\ primary_ept[page].host_pa = Unwrap(first_shadow[page]))

\* C9 witness: a page has gone through both swaps, the one of the hypercall
\* and the one that ends the window, while both shadow pages were allocated
C9_Witness ==
  /\ exit_reason = "mtf" /\ exit_result = Continue /\ mtf_counter = None
  /\ \A page \in GuestPages : shadow_pages[page] # None
  /\ primary_ept[GuestPageOf(guest_registers.rip)] =
       PrimaryMapping(GuestPageOf(guest_registers.rip))

\* C10 as stated: a hypercall whose number in RAX is not a command of
\* VmcallCommand makes handle_vmcall return Err(UnknownVmcallCommand).
C10_UnknownVmcallCommand ==
  [][(VmcallStep /\ guest_registers'.rax \notin VmcallCommand) =>
       exit_result' = UnknownVmcallCommand]_vars

\* The call in progress, and the outcome of the atomic handle_vmcall on the
\* Vm context the call was entered with
InHandler == pc \notin {"guest", "halt"}

\* The statement-wise handler computes what handle_vmcall computes: when it
\* returns, the Vm context and the result are those of handle_vmcall applied
\* to the context at entry
StatementsMatchHandleVmcall ==
  pc = "return" =>
    \E iflag_outcome \in {"Ok", InterruptFlagError} :
      LET handled == handle_vmcall(frame.entry, iflag_outcome)
      IN handled.vm = Vm /\ Some(handled.result) = frame.result

\* C11: handle_vmcall always returns, and what it returns is Ok(Continue) or
\* an error: every VMCALL exit taken, whatever the registers and the
\* hook-manager state, leads to the dispatcher resuming the guest or halting
\* the core.
C11_HandlerTotal ==
  /\ [](pc = "return" => Unwrap(frame.result) \in {Continue} \cup Errors)
  /\ [](pc = "halt" <=> (Halted /\ exit_reason = "vmcall"))
  /\ (pc = "resolve") ~> (pc \in {"guest", "halt"})

\* C11 witness: a hypercall with an unrecognised number has gone through the
\* whole hooked branch and the guest was resumed
C11_Witness ==
  /\ pc = "guest" /\ exit_reason = "vmcall" /\ exit_result = Continue
  /\ guest_registers.rax = 57005
  /\ done = {"swap_page", "mtf_counter", "set_monitor_trap_flag",
             "update_guest_interrupt_flag"}

\* C12: the hooked branch performs the swap, then stores the counter, then
\* arms the monitor-trap flag, then clears the interrupt flag; once the
\* handler has cleared the interrupt flag the page is mapped by the swap,
\* the counter is stored and the flag is armed.
C12_ActivationOrder ==
  /\ done \in {{}, {"swap_page"}, {"swap_page", "mtf_counter"},
               {"swap_page", "mtf_counter", "set_monitor_trap_flag"},
               {"swap_page", "mtf_counter", "set_monitor_trap_flag",
                "update_guest_interrupt_flag"}}
  /\ (InHandler /\ "update_guest_interrupt_flag" \in done) =>
       /\ primary_ept[Unwrap(frame.guest_page_pa)] =
            PrimaryMapping(Unwrap(frame.guest_page_pa))
       /\ mtf_counter # None
       /\ monitor_trap_flag
       /\ ~rflags_if /\ old_rflags = Some(frame.entry.rflags_if)
  /\ (InHandler /\ "swap_page" \notin done) =>
       /\ primary_ept = frame.entry.primary_ept
       /\ mtf_counter = frame.entry.mtf_counter
       /\ monitor_trap_flag = frame.entry.monitor_trap_flag
       /\ rflags_if = frame.entry.rflags_if /\ old_rflags = frame.entry.old_rflags

\* C12 witness: the swap has replaced a mapping to the shadow page while the
\* interrupt flag is still set, before the counter is stored
C12_Witness ==
  /\ pc = "get_hook_info" /\ done = {"swap_page"}
  /\ frame.entry.primary_ept[Unwrap(frame.guest_page_pa)].host_pa =
       Unwrap(frame.shadow_page_pa)
  /\ primary_ept[Unwrap(frame.guest_page_pa)] =
       PrimaryMapping(Unwrap(frame.guest_page_pa))
  /\ rflags_if /\ mtf_counter = None /\ ~monitor_trap_flag

\* The bytes the first n instructions of a function cover
RECURSIVE BytesCovered(_, _)
BytesCovered(lens, n) == IF n = 0 THEN 0 ELSE BytesCovered(lens, n - 1) + lens[n]

\* C13: an activation that returns Ok(Continue) leaves in the counter
\* calculate_instruction_count of the function and the patch size of its
\* hook kind, which is the smallest n whose first n whole instructions cover
\* at least the patch size: n >= 1, and the first n-1 (and any fewer)
\* cover fewer bytes.
C13_InstructionCount ==
  [][(ActivationStep /\ exit_result' = Continue) =>
       \E d \in hooks :
         /\ d.guest_page_pa = ExitPage
         /\ pa_from_va(d.guest_va) = ExitFunctionPa
         /\ LET lens == GuestCode[ExitFunctionPa]
                size == hook_size(d.ept_hook_type)
                n == Unwrap(mtf_counter')
            IN /\ size >= 1
               /\ mtf_counter' = Some(calculate_instruction_count(ExitFunctionPa, size))
               /\ n \in 1..Len(lens)
               /\ BytesCovered(lens, n) >= size
               /\ \A m \in 0..(n - 1) : BytesCovered(lens, m) < size]_vars

\* C13 witness: a kernel hook (three bytes) on the function whose
\* instructions are two, two and one bytes long was activated with a count
\* of two, which covers four bytes
C13_Witness ==
  /\ exit_reason = "vmcall" /\ exit_result = Continue
  /\ guest_registers.rip = 16 * BASE_PAGE_SIZE + 32
  /\ window # None /\ Unwrap(window).traps = 0
  /\ mtf_counter = Some(2)
  /\ \E d \in hooks :
       d.guest_va = guest_registers.rip /\ d.ept_hook_type = "KernelInlineHook"

\* C14 as stated: whenever handle_vmcall returns an error, the EPT mapping
\* of the page, the counter and the monitor-trap flag are what they were
\* before the call.
C14_AllOrNothing ==
  [][(VmcallStep /\ exit_result' \in Errors) =>
       /\ primary_ept'[ExitPage] = primary_ept[ExitPage]
       /\ mtf_counter' = mtf_counter
       /\ monitor_trap_flag' = monitor_trap_flag]_vars

\* C14 amended: an error returned before the swap commits (PageTableNotFound,
\* a failed swap_page) leaves the mapping, the counter and the monitor-trap
\* flag as they were; HookInfoNotFound leaves the counter and the flag as
\* they were and the page mapped by the swap; a failed
\* update_guest_interrupt_flag leaves the page mapped by the swap, the
\* counter stored and the flag armed.  No other error is returned.
C14_ErrorEffects ==
  [][(VmcallStep /\ exit_result' \in Errors) =>
       /\ exit_result' \in {PageTableNotFound, UnalignedAddressError} =>
            /\ primary_ept' = primary_ept
            /\ mtf_counter' = mtf_counter
            /\ monitor_trap_flag' = monitor_trap_flag
       /\ exit_result' = HookInfoNotFound =>
            /\ primary_ept' = [primary_ept EXCEPT ![ExitPage] = PrimaryMapping(ExitPage)]
            /\ mtf_counter' = mtf_counter
            /\ monitor_trap_flag' = monitor_trap_flag
       /\ exit_result' = InterruptFlagError =>
            /\ primary_ept' = [primary_ept EXCEPT ![ExitPage] = PrimaryMapping(ExitPage)]
            /\ mtf_counter' # None
            /\ monitor_trap_flag'
       /\ exit_result' \in {PageTableNotFound, UnalignedAddressError,
                            HookInfoNotFound, InterruptFlagError}
       /\ rflags_if' = rflags_if /\ old_rflags' = old_rflags]_vars

\* C14 witness: update_guest_interrupt_flag failed with no window open
\* before the call: the counter is stored and the flag armed, the interrupt
\* flag still set
C14_Witness ==
  /\ exit_reason = "vmcall" /\ exit_result = InterruptFlagError
  /\ mtf_counter # None /\ monitor_trap_flag
  /\ rflags_if /\ old_rflags = None
  /\ primary_ept[GuestPageOf(guest_registers.rip)] =
       PrimaryMapping(GuestPageOf(guest_registers.rip))

\* The guest is running: no handler is executing and the core has not halted
GuestRunning == pc = "guest" /\ ~Halted

\* The counter is set exactly when the monitor-trap flag is armed, and with
\* the counter absent the hypervisor holds no saved interrupt flag
CounterMatchesTrapFlag ==
  /\ mtf_counter # None <=> monitor_trap_flag
  /\ mtf_counter = None => old_rflags = None

Outcome(handled) ==
  [result |-> handled.result,
   primary_ept |-> handled.vm.primary_ept,
   mtf_counter |-> handled.vm.mtf_counter,
   monitor_trap_flag |-> handled.vm.monitor_trap_flag,
   rflags_if |-> handled.vm.rflags_if,
   old_rflags |-> handled.vm.old_rflags,
   injected_event |-> handled.vm.injected_event]

\* The Vm context of a VMCALL exit taken in the current state
VmcallContext(rax, rip) ==
  [Vm EXCEPT !.guest_registers = [rax |-> rax, rip |-> rip], !.injected_event = None]

C17_AddressDerivation ==
  (call # None /\ call.op = "resolve") =>
    /\ Len(call.ret) >= 1 =>
         LET page == call.ret[1]
         IN /\ page % BASE_PAGE_SIZE = 0
            /\ page <= call.arg
            /\ call.arg - page < BASE_PAGE_SIZE
            /\ swap_page([p \in {page} |-> PrimaryMapping(p)], page,
                         vmcall_swap_host_pa(page, page), vmcall_swap_access,
                         [large_page |-> page]).result = "Ok"
    /\ Len(call.ret) = 2 =>
         LET page == call.ret[1]
             large == call.ret[2]
         IN /\ large % LARGE_PAGE_SIZE = 0
            /\ large <= page
            /\ page - large <= LARGE_PAGE_SIZE - BASE_PAGE_SIZE

\* C17 witness: the last byte below a 2 MiB border, 0x1FFFFF, gives the page
\* 0x1FF000 and the large page 0
C17_Witness ==
  /\ call # None /\ call.op = "resolve"
  /\ call.arg = 2097151
  /\ call.ret = <<2093056, 0>>

\* C18: from_u64 gives a variant for every value: EnableKernelInlineHook
\* for 0, EnableSyscallInlineHook for 1, DisablePageHook for 2, Invalid for
\* anything else; and converting the discriminant of the variant it gave, as
\* of any variant, gives the variant back.
C18_FromU64 ==
  /\ \A command \in Commands : from_u64(discriminant(command)) = command
  /\ (call # None /\ call.op = "from_u64") =>
       /\ Len(call.ret) >= 1 =>
            /\ call.ret[1] \in Commands
            /\ call.arg = 0 <=> call.ret[1] = "EnableKernelInlineHook"
            /\ call.arg = 1 <=> call.ret[1] = "EnableSyscallInlineHook"
            /\ call.arg = 2 <=> call.ret[1] = "DisablePageHook"
            /\ call.arg \notin {0, 1, 2} <=> call.ret[1] = "Invalid"
       /\ Len(call.ret) = 3 => call.ret[3] = call.ret[1]

\* C18 witness: the large value was converted to Invalid, whose discriminant
\* 3 converts to Invalid again
C18_Witness ==
  /\ call # None /\ call.op = "from_u64"
  /\ call.arg = 2147483647
  /\ call.ret = <<"Invalid", 3, "Invalid">>

\* C19: switch_stack is called, and the hypervisor entry point reached, only
\* with the relocation table zeroed and a non-null stack, and the stack base
\* passed is 16-byte aligned and lies in the allocated region, 16 bytes
\* below its end; after a failed allocation handle_alloc_error is where
\* virtualize_system ends.
C19_StackSwitch ==
  driver # None =>
    /\ driver.pc \in {"switch_stack", "start_hypervisor"} =>
         LET stack == Unwrap(driver.stack)
             stack_base == Unwrap(driver.stack_base)
         IN /\ \A offset \in RelocationTableOffsets : driver.image[offset] = 0
            /\ stack # 0
            /\ stack <= stack_base
            /\ stack_base < stack + StackPages * PageSize
            /\ stack_base = stack + StackPages * PageSize - 16
            /\ stack_base % 16 = 0
    /\ (driver.stack # None /\ Unwrap(driver.stack) = 0) =>
         driver.pc \in {"is_null", "handle_alloc_error"}

\* C19 witness: the hypervisor entry point was reached on the stack
\* allocated at 0x3000, whose base is 0x12FF0, from an image that had a
\* relocation table
C19_Witness ==
  /\ driver # None /\ driver.pc = "start_hypervisor"
  /\ driver.stack = Some(12288) /\ driver.stack_base = Some(77808)

\* C19 witness of the failure: the allocation returned null and
\* handle_alloc_error was called
C19_AllocationFailed ==
  driver # None /\ driver.pc = "handle_alloc_error" /\ driver.stack = Some(0)

====
